---- MODULE Spec2Model ----
(***************************************************************************)
(* Model of fairpy/items/israels_MinMakespan_algorithm.py: the schedule    *)
(* state (class scedual and scedual_makespan), the greedy assigner, the    *)
(* linear program with its rounding step and the binary search of apprx.   *)
(*                                                                         *)
(* A cost matrix is a tuple of rows, one row per mechine, as the Python    *)
(* lists handed to ValuationMatrix; indices are the code's, from 0.        *)
(***************************************************************************)
EXTENDS Integers, Sequences, FiniteSets

VARIABLES costs,          \* scedual.costs
          assignments,    \* scedual.assignments, a boolean matrix
          op,             \* the call that produced this state
          arg,            \* the arguments of that call
          ret,            \* what that call returned ("None" when nothing)
          err,            \* the exception that call raised, "none" otherwise
          lower,          \* apprx: lower
          upper,          \* apprx: upper
          middle,         \* apprx: middle
          feasable,       \* apprx: feasable, the last return of LinearProgram
          apprx_bound,    \* LinearProgram: the bound it was last called with
          status,         \* LinearProgram: prob.status of its last call
          fractional_sol, \* Round: the solution it was last handed
          reports         \* the bounds probed so far and the solver's verdict

schedVars == <<costs, assignments, op, arg, ret, err>>
apprxVars == <<lower, upper, middle, feasable, apprx_bound, status,
              fractional_sol>>
vars == <<costs, assignments, op, arg, ret, err, lower, upper, middle,
          feasable, apprx_bound, status, fractional_sol, reports>>

(***************************************************************************)
(* Bounds of the model.                                                    *)
(***************************************************************************)
MaxMechines == 2
MaxJobs == 2
MaxCost == 2
\* the number of bounds one run of the oracle alone is asked about
MaxProbes == 3
\* the schedule state alone is driven over every assignment matrix, on the
\* matrices up to these bounds and on the examples below
StateMaxMechines == 2
StateMaxJobs == 1
StateMaxCost == 2

(***************************************************************************)
(* Cost matrices.                                                          *)
(***************************************************************************)
Matrices(maxM, maxJ, maxC) ==
    UNION { [1..m -> [1..j -> 0..maxC]] : m \in 1..maxM, j \in 1..maxJ }

Mechines(c) == Len(c)
Jobs(c) == Len(c[1])
MRange(c) == 0..(Mechines(c) - 1)
JRange(c) == 0..(Jobs(c) - 1)
Cells(c) == MRange(c) \X JRange(c)
Cost(c, mechine, job) == c[mechine + 1][job + 1]

(***************************************************************************)
(* class scedual                                                           *)
(***************************************************************************)
\* np.zeros(self.shape).astype(bool), used by build and clear
Zeros(c) == [cell \in Cells(c) |-> FALSE]

\* scedual.scedual with the duplicate test left out
scedualNoCheck(a, mechine, job) ==
    [assignments |-> [a EXCEPT ![<<mechine, job>>] = TRUE], err |-> "none"]

\* scedual.scedual: the assignments after the call and the exception raised
scedualCall(a, mechine, job) ==
    IF a[<<mechine, job>>]
    THEN [assignments |-> a, err |-> "KeyError"]
    ELSE [assignments |-> [a EXCEPT ![<<mechine, job>>] = TRUE], err |-> "none"]

\* scedual.loadOf: the generator sums the costs of the assigned jobs in
\* job order; n is the number of jobs already visited
RECURSIVE loadUpTo(_, _, _, _)
loadUpTo(c, a, mechine, n) ==
    IF n = 0 THEN 0
    ELSE loadUpTo(c, a, mechine, n - 1)
         + (IF a[<<mechine, n - 1>>] THEN Cost(c, mechine, n - 1) ELSE 0)

loadOf(c, a, mechine) == loadUpTo(c, a, mechine, Jobs(c))

(***************************************************************************)
(* class scedual_makespan                                                  *)
(***************************************************************************)
\* the inner sum of extract_result, over range(self.Jobs)
RECURSIVE rowSum(_, _, _, _)
rowSum(c, a, mechine, n) ==
    IF n = 0 THEN 0
    ELSE rowSum(c, a, mechine, n - 1)
         + (IF a[<<mechine, n - 1>>] THEN c[mechine + 1][n] ELSE 0)

\* max(...) over range(self.Mechines): n mechines visited, n >= 1
RECURSIVE maxRowSum(_, _, _)
maxRowSum(c, a, n) ==
    IF n = 1 THEN rowSum(c, a, 0, Jobs(c))
    ELSE LET rest == maxRowSum(c, a, n - 1)
             this == rowSum(c, a, n - 1, Jobs(c))
         IN  IF this > rest THEN this ELSE rest

\* extract_result taking the smallest row sum
RECURSIVE minRowSum(_, _, _)
minRowSum(c, a, n) ==
    IF n = 1 THEN rowSum(c, a, 0, Jobs(c))
    ELSE LET rest == minRowSum(c, a, n - 1)
             this == rowSum(c, a, n - 1, Jobs(c))
         IN  IF this < rest THEN this ELSE rest

extract_result_min(c, a) == minRowSum(c, a, Mechines(c))

extract_result(c, a) == maxRowSum(c, a, Mechines(c))

\* the variables of apprx before apprx has been called
NoApprx ==
    /\ lower = 0
    /\ upper = 0
    /\ middle = 0
    /\ feasable = "None"
    /\ apprx_bound = "None"
    /\ status = "None"
    /\ fractional_sol = "None"
    /\ reports = {}

(***************************************************************************)
(* The schedule state under a client that calls it in any order.           *)
(***************************************************************************)
\* the cost matrix of the doctests of scedual_assignment and
\* scedual_makespan
DocOnes == << <<1, 1>>, <<1, 1>> >>

\* matrices with unequal rows and columns
StateExamples ==
    { DocOnes,
      << <<1, 2>>, <<2, 0>> >>,
      << <<0, 1, 2>>, <<2, 1, 0>> >>,
      << <<3, 1>>, <<1, 1>>, <<0, 2>> >> }

InitState ==
    /\ costs \in Matrices(StateMaxMechines, StateMaxJobs, StateMaxCost)
                  \cup StateExamples
    /\ assignments = Zeros(costs)
    /\ op = "build"
    /\ arg = <<>>
    /\ ret = "None"
    /\ err = "none"
    /\ NoApprx

scedual(mechine, job) ==
    LET r == scedualCall(assignments, mechine, job)
    IN  /\ assignments' = r.assignments
        /\ err' = r.err
        /\ op' = "scedual"
        /\ arg' = <<mechine, job>>
        /\ ret' = "None"
        /\ UNCHANGED <<costs, apprxVars, reports>>

clear ==
    /\ assignments' = Zeros(costs)
    /\ op' = "clear"
    /\ arg' = <<>>
    /\ ret' = "None"
    /\ err' = "none"
    /\ UNCHANGED <<costs, apprxVars, reports>>

extract ==
    /\ ret' = extract_result(costs, assignments)
    /\ op' = "extract_result"
    /\ arg' = <<>>
    /\ err' = "none"
    /\ UNCHANGED <<costs, assignments, apprxVars, reports>>

NextState ==
    \/ \E cell \in Cells(costs) : scedual(cell[1], cell[2])
    \/ clear
    \/ extract

SpecState == InitState /\ [][NextState]_vars

(***************************************************************************)
(* greedy                                                                  *)
(***************************************************************************)
\* the key of min(...): lambda mechine : costs[mechine, job] + loadOf(mechine)
greedyKey(c, a, mechine, job) == Cost(c, mechine, job) + loadOf(c, a, mechine)

\* min(range(Mechines), key): Python keeps the first smallest element, a
\* later one replaces it only when strictly smaller; n mechines visited
RECURSIVE minScan(_, _, _, _)
minScan(c, a, job, n) ==
    IF n = 1 THEN 0
    ELSE LET best == minScan(c, a, job, n - 1)
         IN  IF greedyKey(c, a, n - 1, job) < greedyKey(c, a, best, job)
             THEN n - 1 ELSE best

\* min(...) keeping the last smallest element
RECURSIVE lastMinScan(_, _, _, _)
lastMinScan(c, a, job, n) ==
    IF n = 1 THEN 0
    ELSE LET best == lastMinScan(c, a, job, n - 1)
         IN  IF greedyKey(c, a, n - 1, job) <= greedyKey(c, a, best, job)
             THEN n - 1 ELSE best

lastMinMechine(c, a, job) == lastMinScan(c, a, job, Mechines(c))

\* max(...) in the place of min(...)
RECURSIVE maxScan(_, _, _, _)
maxScan(c, a, job, n) ==
    IF n = 1 THEN 0
    ELSE LET best == maxScan(c, a, job, n - 1)
         IN  IF greedyKey(c, a, n - 1, job) > greedyKey(c, a, best, job)
             THEN n - 1 ELSE best

maxMechine(c, a, job) == maxScan(c, a, job, Mechines(c))

minMechine(c, a, job) == minScan(c, a, job, Mechines(c))

\* for job in range(output.Jobs): output.scedual(min(...), job); an
\* exception of scedual ends the loop
RECURSIVE greedyLoop(_, _, _)
greedyLoop(c, st, job) ==
    IF job = Jobs(c) \/ st.err # "none" THEN st
    ELSE greedyLoop(c,
                    scedualCall(st.assignments,
                                minMechine(c, st.assignments, job), job),
                    job + 1)

greedyCall(c, a) == greedyLoop(c, [assignments |-> a, err |-> "none"], 0)

\* the cost matrices of the doctests of greedy
DocGreedy1 == << <<1, 2, 5>>, <<2, 2, 1>>, <<2, 3, 5>> >>
DocGreedy2 == << <<1, 2, 1>>, <<4, 2, 4>>, <<2, 3, 2>> >>
DocGreedy3 == << <<1, 2, 1>>, <<4, 2, 4>>, <<2, 3, 2>>, <<3, 1, 2>> >>
DocGreedy4 == << <<1, 5, 1, 10>>, <<2, 4, 4, 3>>, <<2, 5, 3, 3>>,
                 <<3, 3, 7, 10>> >>
\* three unrelated mechines, each the cheapest for one job
Unrelated3 == << <<2, 2, 1>>, <<1, 1, 2>>, <<1, 2, 3>> >>

ExampleMatrices == {DocGreedy1, DocGreedy2, DocGreedy3, DocGreedy4, Unrelated3}

(***************************************************************************)
(* MinMakespan(greedy, input, output): build, greedy, extract_result.      *)
(***************************************************************************)
InitGreedy ==
    /\ costs \in Matrices(MaxMechines, MaxJobs, MaxCost) \cup ExampleMatrices
    /\ assignments = Zeros(costs)
    /\ op = "build"
    /\ arg = <<>>
    /\ ret = "None"
    /\ err = "none"
    /\ NoApprx

greedy ==
    LET r == greedyCall(costs, assignments)
    IN  /\ assignments' = r.assignments
        /\ err' = r.err
        /\ op' = "greedy"
        /\ arg' = <<>>
        /\ ret' = "None"
        /\ UNCHANGED <<costs, apprxVars, reports>>

NextGreedy ==
    \/ op = "build" /\ greedy
    \/ op = "greedy" /\ err = "none" /\ extract

SpecGreedy == InitGreedy /\ [][NextGreedy]_vars

(***************************************************************************)
(* Numbers of apprx and LinearProgram.  The floats of the code are fixed   *)
(* point numbers here: a bound is an integer count of 1/Scale cost units,  *)
(* and a division truncates below that resolution.  An entry of the        *)
(* fractional solution is an integer count of 1/Denom: with Denom the      *)
(* least common multiple of 1..Mechines the linear program of the code has *)
(* an optimal solution on that grid whenever it has one at all (its        *)
(* constraint matrix is a transportation matrix, and its optimum is a      *)
(* ratio jobs/mechines).                                                   *)
(***************************************************************************)
Scale == 30000 * 2048

\* the 0.0001 of the binary search
Epsilon == Scale \div 10000

Denom(c) ==
    CHOOSE d \in 1..12 :
        /\ \A k \in 1..Mechines(c) : d % k = 0
        /\ \A e \in 1..(d - 1) : \E k \in 1..Mechines(c) : e % k # 0

\* one grid step of a fractional entry, in the unit of the bounds
Step(c) == Scale \div Denom(c)

RECURSIVE Sum(_, _)
Sum(f, S) ==
    IF S = {} THEN 0
    ELSE LET e == CHOOSE e \in S : TRUE
         IN  f[e] + Sum(f, S \ {e})

(***************************************************************************)
(* LinearProgram                                                           *)
(***************************************************************************)
\* the mask with the comparison turned round
EligibleAbove(c, bound, mechine, job) == Cost(c, mechine, job) * Scale >= bound

\* an entry of mask: output.costs[mechine, job] <= apprx_bound
Eligible(c, bound, mechine, job) == Cost(c, mechine, job) * Scale <= bound

\* not (mask == False).all() for the column of job
SomeMechine(c, bound, job) == \E m \in MRange(c) : Eligible(c, bound, m, job)

\* not (mask == False).all() for the row of mechine
SomeJob(c, bound, mechine) == \E j \in JRange(c) : Eligible(c, bound, mechine, j)

\* cp.sum(variables[mechine, :])
RowTotal(c, x, mechine) == Sum(x, {mechine} \X JRange(c))

\* cp.maximum(* [cp.sum(variables[mechine, :]) for mechine ...])
Makespan(c, x) ==
    CHOOSE v \in { RowTotal(c, x, m) : m \in MRange(c) } :
        \A m \in MRange(c) : v >= RowTotal(c, x, m)

\* the columns that satisfy variables >= 0, actives >= variables and
\* cp.sum(variables[:, job][mask]) == 1
Columns(c, bound, job) ==
    { col \in [MRange(c) -> 0..Denom(c)] :
        Sum(col, { m \in MRange(c) : Eligible(c, bound, m, job) }) = Denom(c) }

\* the matrices whose first n columns satisfy the constraints of their jobs
RECURSIVE ColumnwiseUpTo(_, _, _)
ColumnwiseUpTo(c, bound, n) ==
    IF n = 0 THEN { <<>> }
    ELSE { Append(s, col) : s \in ColumnwiseUpTo(c, bound, n - 1),
                            col \in Columns(c, bound, n - 1) }

AsSolution(c, s) == [cell \in Cells(c) |-> s[cell[2] + 1][cell[1]]]

\* the remaining constraints: cp.sum(actives) <= Jobs + Mechines, the row
\* constraints of the eligible jobs and makespan <= apprx_bound
RowConstraints(c, bound, x) ==
    /\ Cardinality({ cell \in Cells(c) : x[cell] > 0 }) <= Jobs(c) + Mechines(c)
    /\ \A m \in MRange(c) :
          SomeJob(c, bound, m) =>
             Sum(x, { cell \in Cells(c) :
                        cell[1] = m /\ Eligible(c, bound, m, cell[2]) })
               * Step(c) <= bound
    /\ Makespan(c, x) * Step(c) <= bound

\* the feasible set of the problem
FeasibleSet(c, bound) ==
    { x \in { AsSolution(c, s) : s \in ColumnwiseUpTo(c, bound, Jobs(c)) } :
        RowConstraints(c, bound, x) }

\* prob.solve(): the points the solver may return under status 'optimal',
\* the feasible points of least makespan; empty when the status is not
\* 'optimal'
Solve(c, bound) ==
    LET feasible == FeasibleSet(c, bound)
        values == { Makespan(c, x) : x \in feasible }
        least == CHOOSE v \in values : \A w \in values : v <= w
    IN  IF feasible = {} THEN {}
        ELSE { x \in feasible : Makespan(c, x) = least }

(***************************************************************************)
(* Round                                                                   *)
(***************************************************************************)
\* int_to_node and the names of mechine_nodes and job_nodes: a letter and
\* the decimal digits of the index (one digit for the indices modelled)
int_to_node(ind, job) == IF job THEN <<"J", ind>> ELSE <<"M", ind>>

\* node_to_int: int(name[1]), the second character of the name
node_to_int(name) == IF Len(name) >= 2 THEN name[2] ELSE "IndexError"

\* the cells in the order of scedual.__iter__, product(agents, objects)
CellAt(c, k) == <<k \div Jobs(c), k % Jobs(c)>>

\* for mechine, job in output: if fractional_sol[mechine, job] == 1:
\* output.scedual(mechine, job); k cells visited
RECURSIVE adoptIntegral(_, _, _, _)
adoptIntegral(c, st, x, k) ==
    IF k = Mechines(c) * Jobs(c) \/ st.err # "none" THEN st
    ELSE LET cell == CellAt(c, k)
         IN  adoptIntegral(c,
                           IF x[cell] = Denom(c)
                           THEN scedualCall(st.assignments, cell[1], cell[2])
                           ELSE st,
                           x, k + 1)

\* the edges of G once the integral assignments are removed
Residual(c, x) == { cell \in Cells(c) : x[cell] > 0 /\ x[cell] < Denom(c) }

\* the keys of the dict that maximum_matching returns for a component that
\* holds an edge: the names of the matched nodes, at least the two ends of
\* one edge of the component
MatchingKeys(c, x) ==
    UNION { { int_to_node(cell[1], FALSE), int_to_node(cell[2], TRUE) } :
            cell \in Residual(c, x) }

\* for mechine, job in maximum_matching(...): the loop runs over the keys
\* of the dict, a key of two characters unpacks into mechine and job, one
\* character each, and node_to_int(mechine) reads past its end
matchKey(key) == node_to_int(<<key[1]>>)

\* the graph is bipartite by construction (every edge joins an M node and
\* a J node), so the RuntimeError of Round is never raised
RoundCall(c, a, x) ==
    LET st == adoptIntegral(c, [assignments |-> a, err |-> "none"], x, 0)
    IN  IF st.err # "none" THEN st
        ELSE IF \E key \in MatchingKeys(c, x) : matchKey(key) = "IndexError"
             THEN [assignments |-> st.assignments, err |-> "IndexError"]
             ELSE st

(***************************************************************************)
(* LinearProgram, whole: what it returns, the exception it raises, the     *)
(* assignments it leaves and the solution it handed to Round.              *)
(***************************************************************************)
Outcome(r, s, a, x, e) ==
    [ret |-> r, status |-> s, assignments |-> a, fractional_sol |-> x, err |-> e]

\* output.clear() moved to the top of LinearProgram, ahead of the mask loop
LinearProgramClearsFirst(c, a, bound) ==
    IF \E job \in JRange(c) : ~SomeMechine(c, bound, job)
    THEN { Outcome("False", "None", Zeros(c), "None", "none") }
    ELSE IF Mechines(c) < 2
    THEN { Outcome("None", "None", Zeros(c), "None", "TypeError") }
    ELSE LET solutions == Solve(c, bound)
         IN  IF solutions = {}
             THEN { Outcome("False", "infeasible", Zeros(c), "None", "none") }
             ELSE { LET r == RoundCall(c, Zeros(c), x)
                    IN  Outcome(IF r.err = "none" THEN "True" ELSE "None",
                                "optimal", r.assignments, x, r.err) :
                    x \in solutions }

LinearProgramCall(c, a, bound) ==
    IF \E job \in JRange(c) : ~SomeMechine(c, bound, job)
    THEN { Outcome("False", "None", a, "None", "none") }
    ELSE IF Mechines(c) < 2
    \* cp.maximum takes at least two arguments
    THEN { Outcome("None", "None", a, "None", "TypeError") }
    ELSE LET solutions == Solve(c, bound)
         IN  IF solutions = {}
             THEN { Outcome("False", "infeasible", a, "None", "none") }
             ELSE { LET r == RoundCall(c, Zeros(c), x)
                    IN  Outcome(IF r.err = "none" THEN "True" ELSE "None",
                                "optimal", r.assignments, x, r.err) :
                    x \in solutions }

(***************************************************************************)
(* MinMakespan(apprx, input, output): build, apprx, extract_result.        *)
(***************************************************************************)
\* two mechines that differ on the last job only
TwoByFour == << <<0, 0, 1, 1>>, <<0, 0, 1, 2>> >>

Init ==
    /\ costs \in Matrices(MaxMechines, MaxJobs, MaxCost) \cup {TwoByFour}
    /\ assignments = Zeros(costs)
    /\ op = "build"
    /\ arg = <<>>
    /\ ret = "None"
    /\ err = "none"
    /\ NoApprx

\* apprx up to the loop: the bounds from a greedy solution of its own
apprxBounds ==
    /\ op = "build"
    /\ LET greedy_sol == greedyCall(costs, Zeros(costs))
           makespan == extract_result(costs, greedy_sol.assignments) * Scale
       IN  /\ upper' = makespan
           /\ lower' = makespan \div Mechines(costs)
    /\ op' = "apprx"
    /\ UNCHANGED <<costs, assignments, arg, ret, err, middle, feasable,
                   apprx_bound, status, fractional_sol, reports>>

\* one pass of the while loop of apprx
apprxLoop ==
    /\ op \in {"apprx", "while"}
    /\ err = "none"
    /\ lower <= upper
    /\ \E out \in LinearProgramCall(costs, assignments, upper) :
          /\ middle' = (upper + lower) \div 2
          /\ apprx_bound' = upper
          /\ assignments' = out.assignments
          /\ status' = out.status
          /\ fractional_sol' = out.fractional_sol
          /\ feasable' = out.ret
          /\ err' = out.err
          /\ lower' = IF out.ret = "False" THEN middle' + Epsilon ELSE lower
          /\ upper' = IF out.ret = "True" THEN middle' - Epsilon ELSE upper
    /\ op' = "while"
    /\ UNCHANGED <<costs, arg, ret, reports>>

\* the loop ends, apprx returns and MinMakespan returns extract_result()
apprxReturn ==
    /\ op \in {"apprx", "while"}
    /\ err = "none"
    /\ lower > upper
    /\ ret' = extract_result(costs, assignments)
    /\ op' = "MinMakespan"
    /\ UNCHANGED <<costs, assignments, arg, err, apprxVars, reports>>

Next ==
    \/ apprxBounds
    \/ apprxLoop
    \/ apprxReturn

Spec == Init /\ [][Next]_vars

(***************************************************************************)
(* LinearProgram alone, asked about several bounds for one cost matrix.    *)
(***************************************************************************)
ProbeBounds == { k * (Scale \div 2) : k \in 0..(2 * MaxCost + 1) }

InitOracle ==
    /\ costs \in Matrices(MaxMechines, MaxJobs, MaxCost)
    /\ assignments = Zeros(costs)
    /\ op = "build"
    /\ arg = <<>>
    /\ ret = "None"
    /\ err = "none"
    /\ NoApprx

\* the verdict of one call: feasible when the solver ended 'optimal',
\* infeasible when LinearProgram returned False, none when it raised
\* before the solver ran
Verdict(bound, out) ==
    IF out.status = "optimal" THEN { <<bound, "feasible">> }
    ELSE IF out.ret = "False" THEN { <<bound, "infeasible">> }
    ELSE {}

LinearProgram(bound) ==
    /\ Cardinality(reports) < MaxProbes
    /\ \E out \in LinearProgramCall(costs, assignments, bound) :
          /\ apprx_bound' = bound
          /\ assignments' = out.assignments
          /\ status' = out.status
          /\ fractional_sol' = out.fractional_sol
          /\ feasable' = out.ret
          /\ err' = out.err
          /\ reports' = reports \cup Verdict(bound, out)
    /\ op' = "LinearProgram"
    /\ UNCHANGED <<costs, arg, ret, lower, upper, middle>>

NextOracle == \E bound \in ProbeBounds : LinearProgram(bound)

SpecOracle == InitOracle /\ [][NextOracle]_vars

(***************************************************************************)
(* C3: scedual(mechine, job) on a cell that is already assigned raises     *)
(* and leaves the whole assignment matrix unchanged; on an unassigned cell *)
(* it sets exactly that cell and changes no other cell.                    *)
(***************************************************************************)
C3_ScedualContract ==
    [][ op' = "scedual" =>
          LET cell == <<arg'[1], arg'[2]>>
          IN  IF assignments[cell]
              THEN /\ err' # "none"
                   /\ assignments' = assignments
              ELSE /\ err' = "none"
                   /\ assignments'[cell]
                   /\ \A other \in Cells(costs) \ {cell} :
                          assignments'[other] = assignments[other]
      ]_vars

\* a duplicate assignment was attempted and refused
C3_Witness ==
    /\ op = "scedual"
    /\ err = "KeyError"
    /\ assignments[<<arg[1], arg[2]>>]

(***************************************************************************)
(* C6: the makespan result equals the maximum over all mechines of the     *)
(* load of the mechine; it is 0 when no job is assigned; it follows every  *)
(* scedual and clear since the previous query (on [[1,1],[1,1]] it is 1    *)
(* after (0,0),(1,1) and 2 once (0,1) is added).                           *)
(***************************************************************************)
Assigned(a) == { cell \in DOMAIN a : a[cell] }

C6_MakespanIsMaxLoad ==
    op = "extract_result" =>
        /\ \E m \in MRange(costs) : ret = loadOf(costs, assignments, m)
        /\ \A m \in MRange(costs) : ret >= loadOf(costs, assignments, m)
        /\ (Assigned(assignments) = {} => ret = 0)
        /\ (costs = DocOnes /\ Assigned(assignments) = {<<0, 0>>, <<1, 1>>}
              => ret = 1)
        /\ (costs = DocOnes
              /\ Assigned(assignments) = {<<0, 0>>, <<1, 1>>, <<0, 1>>}
              => ret = 2)

\* the doctest of scedual_makespan: the second query, after scedual(0, 1)
C6_Witness ==
    /\ op = "extract_result"
    /\ costs = DocOnes
    /\ Assigned(assignments) = {<<0, 0>>, <<1, 1>>, <<0, 1>>}
    /\ ret = 2

(***************************************************************************)
(* The optimum: the least makespan over all assignments of every job to    *)
(* exactly one mechine.                                                    *)
(***************************************************************************)
Integral(c) == [JRange(c) -> MRange(c)]

AsMatrix(c, f) == [cell \in Cells(c) |-> f[cell[2]] = cell[1]]

MakespanOf(c, a) ==
    CHOOSE v \in { loadOf(c, a, m) : m \in MRange(c) } :
        \A m \in MRange(c) : v >= loadOf(c, a, m)

OPT(c) ==
    LET all == { MakespanOf(c, AsMatrix(c, f)) : f \in Integral(c) }
    IN  CHOOSE v \in all : \A w \in all : v <= w

ExactlyOneMechine(c, a) ==
    \A job \in JRange(c) :
        Cardinality({ m \in MRange(c) : a[<<m, job>>] }) = 1

(***************************************************************************)
(* C4: on a freshly built schedule state greedy assigns every job to       *)
(* exactly one mechine, the lowest-index mechine minimising                *)
(* cost(m, j) + load(m) where load(m) is the load of the jobs 0..j-1; the  *)
(* matrix [[1,2,5],[2,2,1],[2,3,5]] yields {(0,0),(1,1),(1,2)}, makespan 3.*)
(***************************************************************************)
\* cost(m, j) plus the load m carries from the jobs before j
PrefixKey(c, a, m, job) == Cost(c, m, job) + loadUpTo(c, a, m, job)

C4_GreedyChoice ==
    op = "greedy" =>
        /\ err = "none"
        /\ ExactlyOneMechine(costs, assignments)
        /\ \A cell \in Assigned(assignments) :
              \A other \in MRange(costs) :
                 /\ PrefixKey(costs, assignments, cell[1], cell[2])
                      <= PrefixKey(costs, assignments, other, cell[2])
                 /\ other < cell[1] =>
                      PrefixKey(costs, assignments, cell[1], cell[2])
                      < PrefixKey(costs, assignments, other, cell[2])
        /\ (costs = DocGreedy1 =>
              /\ Assigned(assignments) = {<<0, 0>>, <<1, 1>>, <<1, 2>>}
              /\ extract_result(costs, assignments) = 3)

\* the first doctest of greedy has run
C4_Witness ==
    /\ op = "greedy"
    /\ costs = DocGreedy1
    /\ Assigned(assignments) = {<<0, 0>>, <<1, 1>>, <<1, 2>>}

(***************************************************************************)
(* C5 as stated: the makespan of the greedy assignment is at most twice    *)
(* the optimum.                                                            *)
(***************************************************************************)
C5_GreedyTwiceOpt ==
    op = "greedy" => extract_result(costs, assignments) <= 2 * OPT(costs)

(***************************************************************************)
(* C5 amended: the makespan of the greedy assignment is at most Mechines   *)
(* times the optimum (so at most twice the optimum on two mechines).       *)
(***************************************************************************)
C5_GreedyMechinesOpt ==
    op = "greedy" =>
        extract_result(costs, assignments) <= Mechines(costs) * OPT(costs)

\* greedy ended above twice the optimum
C5_Witness ==
    /\ op = "greedy"
    /\ OPT(costs) > 0
    /\ extract_result(costs, assignments) > 2 * OPT(costs)

(***************************************************************************)
(* C1: after a completed approximation run (build, then apprx) every job   *)
(* column of the schedule state has exactly one assigned mechine.          *)
(***************************************************************************)
C1_EveryJobOnce ==
    op = "MinMakespan" => ExactlyOneMechine(costs, assignments)

(***************************************************************************)
(* C2: the makespan that the approximation run returns is at most twice    *)
(* the optimum over all integral assignments.                              *)
(***************************************************************************)
C2_ApprxTwiceOpt ==
    op = "MinMakespan" => ret <= 2 * OPT(costs)

(***************************************************************************)
(* C7: handed a fractional solution in which the fractions of every job    *)
(* sum to 1, and a cleared schedule state, Round commits every pair of     *)
(* value exactly 1 and the edges of a maximum matching of the remaining    *)
(* graph, raises nothing and leaves every job with exactly one mechine.    *)
(***************************************************************************)
ColumnsSumToOne(c, x) ==
    \A job \in JRange(c) : Sum(x, MRange(c) \X {job}) = Denom(c)

IsMatching(edges) ==
    \A e1 \in edges : \A e2 \in edges :
        e1 # e2 => e1[1] # e2[1] /\ e1[2] # e2[2]

MaximumMatchings(edges) ==
    LET matchings == { m \in SUBSET edges : IsMatching(m) }
    IN  { m \in matchings :
            \A n \in matchings : Cardinality(n) <= Cardinality(m) }

C7_RoundCommits ==
    (op = "while" /\ status = "optimal"
       /\ ColumnsSumToOne(costs, fractional_sol)) =>
        /\ err = "none"
        /\ \A cell \in Cells(costs) :
              fractional_sol[cell] = Denom(costs) => assignments[cell]
        /\ \E m \in MaximumMatchings(Residual(costs, fractional_sol)) :
              m \subseteq Assigned(assignments)
        /\ ExactlyOneMechine(costs, assignments)

(***************************************************************************)
(* C9: in every pass of the binary search LinearProgram is called with the *)
(* bound middle = (lower + upper) / 2 of the current range.                *)
(***************************************************************************)
C9_OracleAtMiddle ==
    op = "while" => apprx_bound = middle

(***************************************************************************)
(* C10: the solution handed to Round has every entry in [0,1], is 0 on     *)
(* every pair with cost above the bound, sums to 1 over every job, and     *)
(* loads every mechine with at most the bound, costs weighted; and a call  *)
(* at the makespan of greedy that returns has found the problem feasible.  *)
(***************************************************************************)
WeightedLoad(c, x, mechine) ==
    Sum([cell \in Cells(c) |-> Cost(c, cell[1], cell[2]) * x[cell]],
        {mechine} \X JRange(c))

GreedyMakespan(c) ==
    extract_result(c, greedyCall(c, Zeros(c)).assignments)

C10_FractionalSolution ==
    op = "while" =>
        /\ status = "optimal" =>
              /\ \A cell \in Cells(costs) :
                    /\ fractional_sol[cell] \in 0..Denom(costs)
                    /\ ~Eligible(costs, apprx_bound, cell[1], cell[2])
                         => fractional_sol[cell] = 0
              /\ ColumnsSumToOne(costs, fractional_sol)
              /\ \A m \in MRange(costs) :
                    WeightedLoad(costs, fractional_sol, m) * Step(costs)
                      <= apprx_bound
        /\ (apprx_bound = GreedyMakespan(costs) * Scale /\ err = "none")
              => status = "optimal"

NeverFeasible == upper = GreedyMakespan(costs) * Scale

C11_GreedyFallback ==
    (op = "MinMakespan" /\ NeverFeasible) =>
        assignments = greedyCall(costs, Zeros(costs)).assignments

(***************************************************************************)
(* C12: the binary search of apprx ends in a state with lower > upper; in  *)
(* every pass lower does not decrease, upper does not increase and exactly *)
(* one of them changes: lower to middle + 0.0001 when LinearProgram found  *)
(* the bound infeasible, upper to middle - 0.0001 when it found it         *)
(* feasible.                                                               *)
(***************************************************************************)
\* apprx has returned, or an exception has left it
SearchEnded == op = "MinMakespan" \/ err # "none"

PassMovesOneEnd ==
    op' = "while" =>
        /\ lower' >= lower
        /\ upper' <= upper
        /\ \/ /\ feasable' = "False"
              /\ lower' = middle' + Epsilon /\ lower' # lower
              /\ upper' = upper
           \/ /\ feasable' = "True"
              /\ upper' = middle' - Epsilon /\ upper' # upper
              /\ lower' = lower

C12_BinarySearch ==
    /\ [](SearchEnded => lower > upper)
    /\ [][PassMovesOneEnd]_vars

(***************************************************************************)
(* C13: a pass in which LinearProgram returns False (a job without a       *)
(* mechine of cost at most the bound, or a solver status other than        *)
(* optimal) leaves the assignments as they were; a pass in which it        *)
(* returns True leaves exactly the pairs Round committed from a cleared    *)
(* state; and the return of apprx changes nothing. So after at least one   *)
(* feasible pass apprx returns the assignment of the most recent one.      *)
(***************************************************************************)
\* what Round commits on a cleared state when it raises nothing
Committed(c, x) == { cell \in Cells(c) : x[cell] = Denom(c) }

PassKeepsOrRounds ==
    /\ (op' = "while" /\ feasable' = "False") => assignments' = assignments
    /\ (op' = "while" /\ feasable' = "True") =>
          Assigned(assignments') = Committed(costs, fractional_sol')
    /\ op' = "MinMakespan" =>
          /\ assignments' = assignments
          /\ ret' = extract_result(costs, assignments)

C13_LastFeasibleKept == [][PassKeepsOrRounds]_vars

\* apprx has returned after a feasible pass and a later infeasible one, the
\* pairs of the feasible pass still assigned
C13_Witness ==
    /\ op = "MinMakespan"
    /\ ~NeverFeasible
    /\ feasable = "False"
    /\ Assigned(assignments) # {}

====
